---- MODULE Spec2Model ----
(***************************************************************************)
(* The reply pipeline of the enja-ai-talk LINE bots: one inbound message   *)
(* event -> (transcription) -> history -> generation -> history writes ->  *)
(* speech synthesis -> audio upload -> reply.                              *)
(*                                                                         *)
(* The repository holds several near-duplicate index.js files.  The        *)
(* variants modelled here are                                              *)
(*   IdxA      src/index.js            lines   1-271  (Edward, fixed)      *)
(*   IdxB      src/index.js            lines 273-544  (Edward, opus)       *)
(*   P0Rachel  src/unnamed/part_000    lines   1-285  (Rachel v2)          *)
(*   P0Edward  src/unnamed/part_000    lines 287-576  (Edward)             *)
(*   P1Rachel  src/unnamed/part_001    lines   1-194  (Rachel, generator)  *)
(*   P2Rachel  src/unnamed/part_002    lines 172-368  (Rachel, raw body)   *)
(*                                                                         *)
(* Texts are finite sequences of tokens.  The two tags the model is asked  *)
(* to emit, a newline, a blank and two letters are the tokens of a model   *)
(* output; every fixed message of the code is one token of its own.        *)
(***************************************************************************)
EXTENDS Naturals, Sequences, FiniteSets, TLC

VARIABLES
  variant,     \* which of the bot programs is deployed
  table,       \* the message table (edward_messages / rachel_messages), in insertion order
  storage,     \* the audio bucket: the set of object keys that exist
  now,         \* the last value Date.now() returned
  ev,          \* the events of the webhook delivery being handled
  h,           \* per event: the handler's position and local variables
  log,         \* per event: the external calls made so far, with their outcome
  out,         \* per event: the replyMessage calls made so far, with their outcome
  http,        \* the HTTP status the route answered the delivery with ("none" before)
  deliveries,  \* webhook deliveries received so far
  faults,      \* failures of external calls injected so far
  pText,       \* a raw model output handed to a generator's parser
  pOut,        \* what the parser returned for pText ("none" before)
  recent       \* what the last history read returned ("none" before)

vars == <<variant, table, storage, now, ev, h, log, out, http, deliveries,
          faults, pText, pOut, recent>>

(***************************************************************************)
(* Bounds of the model.                                                    *)
(***************************************************************************)
MaxLen == 5
MaxDeliveries == 1
MaxFaults == 2
MaxTime == 1
MaxRows == 12
MaxBatch == 2
MaxBatchFaults == 1

(***************************************************************************)
(* Program constants.                                                      *)
(***************************************************************************)
HistoryLimit == 10
UserTextCap == 400
SpeechCap == 800
DurationMs == 8000
DurationMsP2 == 4000
DurationMsP1 == 2000
DurationMsEdward == 5000

(***************************************************************************)
(* Texts.                                                                  *)
(***************************************************************************)
EN == "EN:"
JP == "JP:"
NL == "\n"
SP == " "
Alphabet == {EN, JP, NL, SP, "e", "j"}

Min(a, b) == IF a <= b THEN a ELSE b
Max(a, b) == IF a >= b THEN a ELSE b

\* JavaScript's \s and the characters String.prototype.trim removes.
IsWs(c) == c \in {NL, SP}

\* s.slice(0, n)
Slice(s, n) == SubSeq(s, 1, Min(Len(s), n))

RECURSIVE TrimStart(_)
TrimStart(s) ==
  IF s # <<>> /\ IsWs(Head(s)) THEN TrimStart(Tail(s)) ELSE s

RECURSIVE TrimEnd(_)
TrimEnd(s) ==
  IF s # <<>> /\ IsWs(s[Len(s)]) THEN TrimEnd(SubSeq(s, 1, Len(s) - 1)) ELSE s

\* s.trim()
Trim(s) == TrimEnd(TrimStart(s))

\* The least element of a non-empty set of numbers.
Least(S) == CHOOSE x \in S : \A y \in S : x <= y

\* The first position of token t in s, 0 when there is none (a regular
\* expression matches at the leftmost position it can).
FirstIdx(s, t) ==
  IF \E i \in 1..Len(s) : s[i] = t
    THEN Least({i \in 1..Len(s) : s[i] = t})
    ELSE 0

\* The last position of the whitespace run that starts right after
\* position i (i itself when none does): what a greedy \s* takes.
RECURSIVE WsRunEnd(_, _)
WsRunEnd(s, i) ==
  IF i < Len(s) /\ IsWs(s[i + 1]) THEN WsRunEnd(s, i + 1) ELSE i

NoMatch == [matched |-> FALSE, group |-> <<>>]

\* fullText.match(/EN:\s*([\s\S]*?)\nJP:/)
\* The tag, a greedy whitespace run that backtracks only as far as needed,
\* the shortest capture, then a newline followed by the JP tag.
MatchEnBeforeNlJp(s) ==
  LET i == FirstIdx(s, EN)
      Delims(from) == {p \in from..(Len(s) - 1) : s[p] = NL /\ s[p + 1] = JP}
      Starts == IF i = 0 THEN {}
                ELSE {st \in (i + 1)..(WsRunEnd(s, i) + 1) : Delims(st) # {}}
  IN IF Starts = {} THEN NoMatch
     ELSE LET st == CHOOSE x \in Starts : \A y \in Starts : y <= x
              p == Least(Delims(st))
          IN [matched |-> TRUE, group |-> SubSeq(s, st, p - 1)]

\* fullText.match(/EN:\s*([\s\S]*?)(?:JP:|$)/)
MatchEnTolerant(s) ==
  LET i == FirstIdx(s, EN)
  IN IF i = 0 THEN NoMatch
     ELSE LET st == WsRunEnd(s, i) + 1
              Ends == {p \in st..Len(s) : s[p] = JP} \cup {Len(s) + 1}
          IN [matched |-> TRUE, group |-> SubSeq(s, st, Least(Ends) - 1)]

\* fullText.match(/JP:\s*([\s\S]*)/)
MatchJp(s) ==
  LET q == FirstIdx(s, JP)
  IN IF q = 0 THEN NoMatch
     ELSE [matched |-> TRUE, group |-> SubSeq(s, WsRunEnd(s, q) + 1, Len(s))]

\* The fixed message index.js (first file) puts in the Japanese field when
\* the JP tag is missing.
JpExtractFailed == <<"(jp-extract-failed)">>

\* createEdwardReply of src/index.js, first file: lines 98-104.
ParseEdwardA(fullText) ==
  LET enMatch == MatchEnBeforeNlJp(fullText)
      jpMatch == MatchJp(fullText)
  IN [english  |-> IF enMatch.matched THEN Trim(enMatch.group) ELSE Trim(fullText),
      japanese |-> IF jpMatch.matched THEN Trim(jpMatch.group) ELSE JpExtractFailed]

\* createEdwardReply of src/index.js, second file (lines 489-495); the same
\* lines are in part_000 (397-403), part_001 (82-88) and part_002 (286-292).
ParseEdwardB(text) ==
  LET en == MatchEnBeforeNlJp(text)
      jp == MatchJp(text)
  IN [english  |-> IF en.matched THEN Trim(en.group) ELSE Trim(text),
      japanese |-> IF jp.matched THEN Trim(jp.group) ELSE <<>>]

\* createRachelReply of src/unnamed/part_000: lines 107-113.
ParseRachelV2(fullText) ==
  LET enMatch == MatchEnTolerant(fullText)
      jpMatch == MatchJp(fullText)
  IN [english  |-> IF enMatch.matched THEN Trim(enMatch.group) ELSE <<>>,
      japanese |-> IF jpMatch.matched THEN Trim(jpMatch.group) ELSE <<>>]

Generators == {"IdxA", "IdxB", "P0Rachel", "P0Edward", "P1Rachel", "P2Rachel"}

\* The parser of variant v's generator.
ParseReply(v, fullText) ==
  CASE v = "IdxA"     -> ParseEdwardA(fullText)
    [] v = "P0Rachel" -> ParseRachelV2(fullText)
    [] OTHER          -> ParseEdwardB(fullText)

\* Every text of at most n tokens.
Texts(n) == UNION {[1..k -> Alphabet] : k \in 0..n}

Has(s, t) == \E i \in 1..Len(s) : s[i] = t

(***************************************************************************)
(* The history store.                                                      *)
(***************************************************************************)
Users == {"u1", "u2"}

\* An insert that keeps one row per user and role: the new row replaces the
\* one the user already has with that role.
InsertRowReplacing(tbl, userId, role, content, type) ==
  Append(SelectSeq(tbl, LAMBDA r : ~(r.user_id = userId /\ r.role = role)),
         [user_id |-> userId, role |-> role, content |-> content,
          type |-> type, created_at |-> Len(tbl) + 1])

\* supabase.from(...).insert({user_id, role, content, type}): the row is
\* appended; created_at is the store's insertion stamp.
InsertRow(tbl, userId, role, content, type) ==
  Append(tbl, [user_id |-> userId, role |-> role, content |-> content,
               type |-> type, created_at |-> Len(tbl) + 1])

RECURSIVE Reverse(_)
Reverse(s) == IF s = <<>> THEN <<>> ELSE Append(Reverse(Tail(s)), Head(s))

\* .eq("user_id", userId).order("created_at", {ascending: false}): the rows
\* of userId, newest first.
RECURSIVE OrderDesc(_)
OrderDesc(rows) ==
  IF rows = {} THEN <<>>
  ELSE LET newest == CHOOSE r \in rows : \A q \in rows : q.created_at <= r.created_at
       IN <<newest>> \o OrderDesc(rows \ {newest})

\* .select("role, content") ... .limit(limit): the data of the query.
SelectRecent(tbl, userId, limit) ==
  LET mine == {tbl[i] : i \in {k \in 1..Len(tbl) : tbl[k].user_id = userId}}
      desc == OrderDesc(mine)
      cut  == SubSeq(desc, 1, Min(Len(desc), limit))
  IN [i \in 1..Len(cut) |-> [role |-> cut[i].role, content |-> cut[i].content]]

\* The descending query result handed on as it is, newest first.
GetRecentMessagesUnreversed(tbl, userId, limit, failed) ==
  IF failed THEN <<>> ELSE SelectRecent(tbl, userId, limit)

\* getRecentMessages(userId, limit = 10): [] on an error result, else the
\* data reversed.  (index.js second file: data?.reverse() || [], where data
\* is null on an error; part_002 getHistory: the same with a try/catch.)
GetRecentMessages(tbl, userId, limit, failed) ==
  IF failed THEN <<>> ELSE Reverse(SelectRecent(tbl, userId, limit))

(***************************************************************************)
(* The variants of the pipeline.                                           *)
(***************************************************************************)
Variants == {"IdxA", "IdxB", "P0Rachel", "P0Edward", "P2Rachel"}

\* The programs whose route handles the events itself, one after the other:
\* Rachel of part_001, Edward of part_001 and of part_002.
LoopVariants == {"P1Rachel", "P1Edward", "P2Edward"}

AllVariants == Variants \cup LoopVariants

\* handleEvent wraps its body in try/catch and answers with an apology.
HasCatch(v) == v \in {"IdxA", "IdxB", "P0Rachel", "P0Edward"}

\* The assistant turn is stored as two records, English then Japanese.
SplitsAssistant(v) == v \in {"IdxA", "P0Rachel"}

\* The reply substitutes a fixed text for an empty Japanese field.
HasReplyFallback(v) == v \in {"P0Rachel", "P0Edward"}

MsgTypes == {"text", "audio", "sticker"}

\* The text of the message of the d-th delivery.
MsgText(d) == <<"msg", <<"1", "2", "3", "4">>[d]>>
VoiceText(d) == <<"voice", <<"1", "2", "3", "4">>[d]>>

\* What the model may answer in the pipeline: both tags; no tag; the EN tag
\* alone; the JP tag followed by a blank only.
ModelOutputs ==
  { <<EN, SP, "e", NL, JP, SP, "j">>,
    <<"e">>,
    <<EN, SP, "e">>,
    <<EN, SP, "e", NL, JP, SP>> }

\* The fixed replies.
CouldNotUnderstand == <<"(could-not-understand-audio)">>
Guidance == <<"(please-send-text-or-audio)">>
ApologyText == <<"(error-apology)">>
JpReplyFallback == <<"(jp-generation-failed)">>
FormatInstructions == <<"(format-instructions)">>

TextMsg(t) == [type |-> "text", text |-> t]
AudioMsg(u, d) == [type |-> "audio", originalContentUrl |-> u, duration |-> d]

NoText == <<>>
NoUrl == [owner |-> "none", ts |-> 0, rnd |-> 0]

InitHandler ==
  [pc |-> "start", userText |-> NoText, messages |-> <<>>,
   english |-> NoText, japanese |-> NoText, spoken |-> NoText, url |-> NoUrl]

(***************************************************************************)
(* handleEvent, one action per await: the action is the awaited call       *)
(* returning (or throwing) together with the synchronous code that runs    *)
(* up to the next await.                                                   *)
(***************************************************************************)
EventIds == {1}

Settled(e) == h[e].pc \in {"done", "rejected"}

\* Event e is being handled and its handler waits at pc.
At(e, pc) == e \in DOMAIN ev /\ h[e].pc = pc

\* A throw that ends the handler quietly, with no apology.
ThrownSwallowed(v) == "done"

\* Where a throw inside handleEvent leads: the catch block's apology
\* reply, or (no try/catch) the rejection of the handler's promise.  In the
\* routes that handle the events themselves nothing catches it: the route's
\* async callback ends there with an unhandled rejection.
Thrown(v) ==
  CASE HasCatch(v)        -> "apology"
    [] v \in LoopVariants -> "unhandled"
    [] OTHER              -> "rejected"

Call(op, ok) == [op |-> op, ok |-> ok]

\* The type column of the user turn.
UserType(v, m) ==
  CASE v = "P2Rachel"                -> "unset"
    [] v \in {"P1Edward", "P2Edward"} -> "text"
    [] OTHER -> IF m.mtype = "audio" THEN "audio" ELSE "text"

\* The messages createEdwardReply / createRachelReply sends to the model,
\* without the system prompt: the history, then the new user text.
BuildMessages(v, history, userText) ==
  [i \in 1..Len(history) |->
     [role |-> IF v \in {"IdxB", "P2Rachel"} THEN history[i].role
               ELSE IF history[i].role = "assistant" THEN "assistant" ELSE "user",
      content |-> history[i].content]]
  \o <<[role |-> "user",
        content |-> IF v = "P0Rachel" THEN userText \o FormatInstructions
                    ELSE userText]>>

\* The content of the (first) assistant record.
AssistantContent(v, english, japanese) ==
  CASE SplitsAssistant(v) -> english
    [] v \in {"P1Edward", "P2Edward"} -> english
    [] v \in {"P2Rachel", "P1Rachel"} ->
         <<EN, SP>> \o english \o <<NL, JP, SP>> \o japanese
    [] OTHER              -> english \o <<NL>> \o japanese

\* synthesize...Voice: the input of the speech call.
SpeechInput(v, english) ==
  IF v \in {"P2Rachel", "P1Edward", "P2Edward"} THEN english
  ELSE Slice(english, SpeechCap)

\* The user text handleEvent works with: msg.text.slice(0, 400) for a typed
\* message in index.js and part_000, msg.text as it is elsewhere, and the
\* transcript as it is for a voice message.
UserTextOf(v, mtype, raw) ==
  IF mtype = "text" /\ v \in {"IdxA", "IdxB", "P0Rachel", "P0Edward"}
    THEN Slice(raw, UserTextCap)
    ELSE raw

\* crypto.randomBytes(4) of uploadAudio (index.js, second file); the other
\* variants put no random part in the key.
RandomParts(v) == IF v = "IdxB" THEN {0, 1} ELSE {0}

\* `audio/${userId}-${Date.now()}.mp3` and its variants: with a random part
\* in index.js (second file), `rachel_${userId}_${Date.now()}.mp3` in
\* part_001 (Rachel), and `edward_${Date.now()}.mp3`, which names no user,
\* in Edward of part_001 and part_002.
ObjectKey(v, userId, t, r) ==
  [owner |-> IF v \in {"P1Edward", "P2Edward"} THEN "none" ELSE userId,
   ts |-> t, rnd |-> r]

\* The Japanese segment of the normal reply.
JapaneseSegment(v, japanese) ==
  IF HasReplyFallback(v) /\ japanese = <<>> THEN JpReplyFallback ELSE japanese

\* The messages of the normal reply.
NormalReply(v, hs, t) ==
  IF v = "P2Rachel"
    THEN << TextMsg(<<EN, SP>> \o hs.english \o <<NL, JP, SP>> \o hs.japanese),
            AudioMsg([owner |-> "tmp", ts |-> t, rnd |-> 0], DurationMsP2) >>
    ELSE << TextMsg(hs.english),
            TextMsg(JapaneseSegment(v, hs.japanese)),
            AudioMsg(hs.url, DurationMs) >>

\* A webhook delivery arrives with one message event.
Receive ==
  /\ deliveries < MaxDeliveries
  /\ \/ ev = <<>>
     \/ http # "none" /\ \A e \in DOMAIN ev : Settled(e)
  /\ \E mt \in MsgTypes, u \in Users :
       ev' = << [type |-> "message", mtype |-> mt, userId |-> u,
                 text |-> MsgText(deliveries + 1),
                 replyToken |-> deliveries + 1] >>
  /\ h' = <<InitHandler>>
  /\ log' = << <<>> >>
  /\ out' = << <<>> >>
  /\ http' = "none"
  /\ deliveries' = deliveries + 1
  /\ UNCHANGED <<variant, table, storage, now, faults, pText, pOut, recent>>

\* handleEvent from its entry to its first await.
Start(e) ==
  /\ At(e, "start")
  /\ h' = [h EXCEPT ![e] =
       CASE variant = "P2Rachel" /\ ev[e].mtype = "text" ->
              [@ EXCEPT !.pc = "read",
                        !.userText = UserTextOf(variant, "text", ev[e].text)]
         [] variant = "P2Rachel" ->
              [@ EXCEPT !.pc = "done"]
         [] ev[e].mtype = "text" ->
              [@ EXCEPT !.pc = "saveUser",
                        !.userText = UserTextOf(variant, "text", ev[e].text)]
         [] ev[e].mtype = "audio" ->
              [@ EXCEPT !.pc = "fetch"]
         [] variant = "IdxB" ->
              [@ EXCEPT !.pc = "saveUser"]
         [] OTHER ->
              [@ EXCEPT !.pc = "replyOther"]]
  /\ UNCHANGED <<variant, table, storage, now, ev, log, out, http, deliveries,
                 faults, pText, pOut, recent>>

\* lineClient.getMessageContent and the reading of its stream.
Fetch(e) ==
  /\ At(e, "fetch")
  /\ \/ /\ h' = [h EXCEPT ![e].pc = "transcribe"]
        /\ log' = [log EXCEPT ![e] = Append(@, Call("fetch", TRUE))]
        /\ UNCHANGED faults
     \/ /\ faults < MaxFaults
        /\ faults' = faults + 1
        /\ h' = [h EXCEPT ![e].pc = Thrown(variant)]
        /\ log' = [log EXCEPT ![e] = Append(@, Call("fetch", FALSE))]
  /\ UNCHANGED <<variant, table, storage, now, ev, out, http, deliveries,
                 pText, pOut, recent>>

\* A handler that runs the exchange whatever the transcript is.
AfterTranscribeProceeds(hs, text) ==
  [hs EXCEPT !.userText = text, !.pc = "saveUser"]

\* Where handleEvent goes with the transcript.
AfterTranscribe(hs, text) ==
  [hs EXCEPT !.userText = text,
             !.pc = IF text = <<>> THEN "replyEmpty" ELSE "saveUser"]

\* transcribeAudio: the transcript, or "" when it is empty or the call throws.
Transcribe(e) ==
  /\ At(e, "transcribe")
  /\ \/ /\ \E text \in {VoiceText(deliveries), <<>>} :
             h' = [h EXCEPT ![e] =
                    AfterTranscribe(@, UserTextOf(variant, "audio", text))]
        /\ log' = [log EXCEPT ![e] = Append(@, Call("transcribe", TRUE))]
        /\ UNCHANGED faults
     \/ /\ faults < MaxFaults
        /\ faults' = faults + 1
        /\ h' = [h EXCEPT ![e] = AfterTranscribe(@, <<>>)]
        /\ log' = [log EXCEPT ![e] = Append(@, Call("transcribe", FALSE))]
  /\ UNCHANGED <<variant, table, storage, now, ev, out, http, deliveries,
                 pText, pOut, recent>>

\* The order of the awaits in the webhook of part_001 (Rachel): the reply
\* is stored after it is sent.
StageAfterRachelLoop(pc) ==
  CASE pc = "read"      -> "generate"
    [] pc = "generate"  -> "synth"
    [] pc = "synth"     -> "upload"
    [] pc = "upload"    -> "reply"
    [] pc = "reply"     -> "saveAsst"
    [] OTHER            -> "done"

\* The order of the awaits in generateResponse and the route of Edward
\* (part_001, part_002).
StageAfterEdwardLoop(pc) ==
  CASE pc = "saveUser"  -> "generate"
    [] pc = "generate"  -> "translate"
    [] pc = "translate" -> "synth"
    [] pc = "synth"     -> "upload"
    [] pc = "upload"    -> "saveAsst"
    [] pc = "saveAsst"  -> "reply"
    [] OTHER            -> "done"

\* The stage that follows a stage that returned normally.
NextStage(v, pc) ==
  CASE v = "P1Rachel" -> StageAfterRachelLoop(pc)
    [] v \in {"P1Edward", "P2Edward"} -> StageAfterEdwardLoop(pc)
    [] pc = "saveUser"  -> IF v = "P2Rachel" THEN "saveAsst" ELSE "read"
    [] pc = "read"      -> "generate"
    [] pc = "generate"  -> IF v = "P2Rachel" THEN "saveUser" ELSE "saveAsst"
    [] pc = "saveAsst"  -> IF SplitsAssistant(v) THEN "saveAsst2" ELSE "synth"
    [] pc = "saveAsst2" -> "synth"
    [] pc = "synth"     -> IF v = "P2Rachel" THEN "reply" ELSE "upload"
    [] pc = "upload"    -> "reply"
    [] OTHER            -> "done"

\* A saveMessage that throws its error result.
AfterSaveThrows(v, op, ok) == IF ok THEN NextStage(v, op) ELSE Thrown(v)

\* A getRecentMessages that throws its error result.
AfterReadThrows(v, ok) == IF ok THEN NextStage(v, "read") ELSE Thrown(v)

\* Where handleEvent goes when saveMessage returns: its error result is
\* logged inside saveMessage and nothing is thrown.
AfterSave(v, op, ok) == NextStage(v, op)

\* Where handleEvent goes when getRecentMessages / getHistory returns: on an
\* error result it has returned [] and nothing is thrown.
AfterRead(v, ok) == NextStage(v, "read")

\* saveMessage: the insert; an error result is logged, nothing is thrown.
SaveMessage(e, op, role, content, type) ==
  /\ At(e, op)
  /\ \E ok \in BOOLEAN :
       /\ ok \/ faults < MaxFaults
       /\ faults' = IF ok THEN faults ELSE faults + 1
       /\ table' = IF ok THEN InsertRow(table, ev[e].userId, role, content, type)
                   ELSE table
       /\ log' = [log EXCEPT ![e] = Append(@, Call(op, ok))]
       /\ h' = [h EXCEPT ![e].pc = AfterSave(variant, op, ok)]
  /\ UNCHANGED <<variant, storage, now, ev, out, http, deliveries, pText, pOut,
                 recent>>

\* await saveMessage(userId, "user", userText, ...)
SaveUser(e) ==
  SaveMessage(e, "saveUser", "user", h[e].userText, UserType(variant, ev[e]))

\* await saveMessage(userId, "assistant", ...): the English record, or the
\* combined one.
SaveAsst(e) ==
  SaveMessage(e, "saveAsst", "assistant",
              AssistantContent(variant, h[e].english, h[e].japanese),
              IF variant = "P2Rachel" THEN "unset" ELSE "text")

\* await saveMessage(userId, "assistant", japanese, "text")
SaveAsst2(e) ==
  SaveMessage(e, "saveAsst2", "assistant", h[e].japanese, "text")

\* const history = await getRecentMessages(userId), then the synchronous
\* start of the generator, which builds the request.
Read(e) ==
  /\ At(e, "read")
  /\ \E ok \in BOOLEAN :
       /\ ok \/ faults < MaxFaults
       /\ faults' = IF ok THEN faults ELSE faults + 1
       /\ log' = [log EXCEPT ![e] = Append(@, Call("read", ok))]
       /\ h' = [h EXCEPT
            ![e].pc = AfterRead(variant, ok),
            ![e].messages =
               BuildMessages(variant,
                 GetRecentMessages(table, ev[e].userId, HistoryLimit, ~ok),
                 h[e].userText)]
  /\ UNCHANGED <<variant, table, storage, now, ev, out, http, deliveries,
                 pText, pOut, recent>>

\* The chat completion returns some text, which is parsed; or it throws.
Generate(e) ==
  /\ At(e, "generate")
  /\ \/ /\ \E fullText \in ModelOutputs :
             h' = [h EXCEPT
               ![e].pc = NextStage(variant, "generate"),
               ![e].english = ParseReply(variant, fullText).english,
               ![e].japanese = ParseReply(variant, fullText).japanese]
        /\ log' = [log EXCEPT ![e] = Append(@, Call("generate", TRUE))]
        /\ UNCHANGED faults
     \/ /\ faults < MaxFaults
        /\ faults' = faults + 1
        /\ h' = [h EXCEPT ![e].pc = Thrown(variant)]
        /\ log' = [log EXCEPT ![e] = Append(@, Call("generate", FALSE))]
  /\ UNCHANGED <<variant, table, storage, now, ev, out, http, deliveries,
                 pText, pOut, recent>>

\* The speech call returns the audio, or throws.
Synth(e) ==
  /\ At(e, "synth")
  /\ \/ /\ h' = [h EXCEPT ![e].pc = NextStage(variant, "synth"),
                          ![e].spoken = SpeechInput(variant, h[e].english)]
        /\ log' = [log EXCEPT ![e] = Append(@, Call("synth", TRUE))]
        /\ UNCHANGED faults
     \/ /\ faults < MaxFaults
        /\ faults' = faults + 1
        /\ h' = [h EXCEPT ![e].pc = Thrown(variant),
                          ![e].spoken = SpeechInput(variant, h[e].english)]
        /\ log' = [log EXCEPT ![e] = Append(@, Call("synth", FALSE))]
  /\ UNCHANGED <<variant, table, storage, now, ev, out, http, deliveries,
                 pText, pOut, recent>>

\* The values Date.now() may return next.
Clock == now..Min(now + 1, MaxTime)

\* uploadAudioToSupabase / uploadAudio: the key is built from Date.now();
\* the upload does not overwrite (upsert: false, the default as well), so it
\* returns an error for a key that exists; an error result is thrown.
Upload(e) ==
  /\ At(e, "upload")
  /\ \E t \in Clock, r \in RandomParts(variant) :
       LET key == ObjectKey(variant, ev[e].userId, t, r) IN
       /\ now' = t
       /\ \/ /\ key \notin storage
             /\ storage' = storage \cup {key}
             /\ h' = [h EXCEPT ![e].pc = NextStage(variant, "upload"),
                               ![e].url = key]
             /\ log' = [log EXCEPT ![e] = Append(@, Call("upload", TRUE))]
             /\ UNCHANGED faults
          \/ /\ key \in storage
             /\ h' = [h EXCEPT ![e].pc = Thrown(variant)]
             /\ log' = [log EXCEPT ![e] = Append(@, Call("upload", FALSE))]
             /\ UNCHANGED <<storage, faults>>
          \/ /\ key \notin storage
             /\ faults < MaxFaults
             /\ faults' = faults + 1
             /\ h' = [h EXCEPT ![e].pc = Thrown(variant)]
             /\ log' = [log EXCEPT ![e] = Append(@, Call("upload", FALSE))]
             /\ UNCHANGED storage
  /\ UNCHANGED <<variant, table, ev, out, http, deliveries, pText, pOut, recent>>

\* A reply after which control falls into the catch path even when the call
\* returned.
AfterReplyFallsThrough(ok, onThrow) == onThrow

\* Where handleEvent goes after a replyMessage: it returns once the call
\* has returned; a throw goes to onThrow.
AfterReply(ok, onThrow) == IF ok THEN "done" ELSE onThrow

\* lineClient.replyMessage(replyToken, msgs) at position op: it returns and
\* the handler is done, or it throws.
ReplyCall(e, op, msgs, onThrow) ==
  /\ At(e, op)
  /\ \E ok \in BOOLEAN :
       /\ ok \/ faults < MaxFaults
       /\ faults' = IF ok THEN faults ELSE faults + 1
       /\ out' = [out EXCEPT ![e] = Append(@, [msgs |-> msgs, ok |-> ok])]
       /\ log' = [log EXCEPT ![e] = Append(@, Call(op, ok))]
       /\ h' = [h EXCEPT ![e].pc = AfterReply(ok, onThrow)]
  /\ UNCHANGED <<variant, table, storage, ev, http, deliveries, pText, pOut,
                 recent>>

\* The normal reply: English, Japanese, audio.
Reply(e) ==
  /\ At(e, "reply")
  /\ \E t \in IF variant = "P2Rachel" THEN Clock ELSE {now} :
       /\ now' = t
       /\ ReplyCall(e, "reply", NormalReply(variant, h[e], t), Thrown(variant))

\* The reply to a voice message without a transcript.
ReplyEmpty(e) ==
  /\ ReplyCall(e, "replyEmpty", <<TextMsg(CouldNotUnderstand)>>, Thrown(variant))
  /\ UNCHANGED now

\* The reply to a message that is neither text nor audio.
ReplyOther(e) ==
  /\ ReplyCall(e, "replyOther", <<TextMsg(Guidance)>>, Thrown(variant))
  /\ UNCHANGED now

\* The catch block: the apology reply; if that throws, handleEvent rejects.
Apology(e) ==
  /\ ReplyCall(e, "apology", <<TextMsg(ApologyText)>>, "rejected")
  /\ UNCHANGED now

\* The route: await Promise.all(...) then 200; 500 when a handler rejected.
Respond ==
  /\ http = "none"
  /\ ev # <<>>
  /\ \/ /\ \E e \in DOMAIN ev : h[e].pc = "rejected"
        /\ http' = "500"
     \/ /\ \A e \in DOMAIN ev : h[e].pc = "done"
        /\ http' = "200"
  /\ UNCHANGED <<variant, table, storage, now, ev, h, log, out, deliveries,
                 faults, pText, pOut, recent>>

\* Any step of the handler of event e.
Handle(e) ==
  \/ Start(e)
  \/ Fetch(e)
  \/ Transcribe(e)
  \/ SaveUser(e)
  \/ Read(e)
  \/ Generate(e)
  \/ SaveAsst(e)
  \/ SaveAsst2(e)
  \/ Synth(e)
  \/ Upload(e)
  \/ Reply(e)
  \/ ReplyEmpty(e)
  \/ ReplyOther(e)
  \/ Apology(e)

Init ==
  /\ variant \in Variants
  /\ table = <<>>
  /\ storage = {}
  /\ now = 0
  /\ ev = <<>>
  /\ h = <<>>
  /\ log = <<>>
  /\ out = <<>>
  /\ http = "none"
  /\ deliveries = 0
  /\ faults = 0
  /\ pText = <<>>
  /\ pOut = <<>>
  /\ recent = <<>>

Next ==
  \/ Receive
  \/ \E e \in EventIds : Start(e)
  \/ \E e \in EventIds : Fetch(e)
  \/ \E e \in EventIds : Transcribe(e)
  \/ \E e \in EventIds : SaveUser(e)
  \/ \E e \in EventIds : Read(e)
  \/ \E e \in EventIds : Generate(e)
  \/ \E e \in EventIds : SaveAsst(e)
  \/ \E e \in EventIds : SaveAsst2(e)
  \/ \E e \in EventIds : Synth(e)
  \/ \E e \in EventIds : Upload(e)
  \/ \E e \in EventIds : Reply(e)
  \/ \E e \in EventIds : ReplyEmpty(e)
  \/ \E e \in EventIds : ReplyOther(e)
  \/ \E e \in EventIds : Apology(e)
  \/ Respond

Spec == Init /\ [][Next]_vars

\* Every external call eventually returns or throws, and the route answers.
FairSpec == Spec /\ WF_vars(Respond) /\ \A e \in EventIds : WF_vars(Handle(e))

(***************************************************************************)
(* The routes that handle the events themselves, with no handleEvent and   *)
(* no try/catch: the webhook of part_001 (Rachel), which handles the first *)
(* event of the delivery only and answers 200 before it does anything, and *)
(* the route of Edward (part_001, part_002), which handles the events one  *)
(* after the other and answers 200 after the last.                         *)
(***************************************************************************)
BatchIds == 1..MaxBatch

IsEdwardLoop == variant \in {"P1Edward", "P2Edward"}

\* uploadAudio of part_001 (Rachel) returns null when the upload failed.
NullUrl == [owner |-> "null", ts |-> 0, rnd |-> 0]

\* The route is through with the delivery: every event is handled, or the
\* callback ended with an unhandled rejection, or (Rachel) the first event
\* is handled.
RouteEnded ==
  /\ ev # <<>>
  /\ \/ \E e \in DOMAIN ev : h[e].pc = "unhandled"
     \/ IF variant = "P1Rachel" THEN h[1].pc = "done"
        ELSE \A e \in DOMAIN ev : h[e].pc = "done"

\* A webhook delivery arrives with a batch of message events.
LoopReceive ==
  /\ deliveries < MaxDeliveries
  /\ \/ ev = <<>>
     \/ RouteEnded /\ http # "none"
  /\ \E n \in 1..MaxBatch :
       \E mts \in [1..n -> MsgTypes], us \in [1..n -> Users] :
         ev' = [e \in 1..n |->
                  [type |-> "message", mtype |-> mts[e], userId |-> us[e],
                   text |-> MsgText(e), replyToken |-> e]]
  /\ h' = [e \in DOMAIN ev' |-> InitHandler]
  /\ log' = [e \in DOMAIN ev' |-> <<>>]
  /\ out' = [e \in DOMAIN ev' |-> <<>>]
  /\ http' = IF variant = "P1Rachel" THEN "200" ELSE "none"
  /\ deliveries' = deliveries + 1
  /\ UNCHANGED <<variant, table, storage, now, faults, pText, pOut, recent>>

\* The route reaches event e: events[0] in Rachel; in Edward the next
\* event of the for loop, once the event before it is through.
LoopStart(e) ==
  /\ At(e, "start")
  /\ IF variant = "P1Rachel" THEN e = 1
     ELSE \A d \in 1..(e - 1) : h[d].pc = "done"
  /\ h' = [h EXCEPT ![e] =
       CASE ev[e].mtype = "text" ->
              [@ EXCEPT !.pc = IF variant = "P1Rachel" THEN "read" ELSE "saveUser",
                        !.userText = UserTextOf(variant, "text", ev[e].text)]
         [] ev[e].mtype = "audio" ->
              [@ EXCEPT !.pc = "fetch"]
         [] variant = "P1Rachel" ->
              [@ EXCEPT !.pc = "read"]
         [] OTHER ->
              [@ EXCEPT !.pc = "done"]]
  /\ UNCHANGED <<variant, table, storage, now, ev, log, out, http, deliveries,
                 faults, pText, pOut, recent>>

\* openai.audio.transcriptions.create in the route: the transcript, which
\* may be empty, or a throw.
LoopTranscribe(e) ==
  /\ At(e, "transcribe")
  /\ \/ /\ \E text \in {VoiceText(ev[e].replyToken), <<>>} :
             h' = [h EXCEPT
               ![e].userText = UserTextOf(variant, "audio", text),
               ![e].pc = IF variant = "P1Rachel" THEN "read" ELSE "saveUser"]
        /\ log' = [log EXCEPT ![e] = Append(@, Call("transcribe", TRUE))]
        /\ UNCHANGED faults
     \/ /\ faults < MaxFaults
        /\ faults' = faults + 1
        /\ h' = [h EXCEPT ![e].pc = Thrown(variant)]
        /\ log' = [log EXCEPT ![e] = Append(@, Call("transcribe", FALSE))]
  /\ UNCHANGED <<variant, table, storage, now, ev, out, http, deliveries,
                 pText, pOut, recent>>

\* What Edward's first completion may answer: his prompt asks for no tags.
EdwardOutputs == { <<"e">>, <<SP, "e", NL>> }

\* generateResponse of Edward, the first completion: the English reply is
\* the model's text trimmed; the request holds the user text and no history.
GenerateResponse(e) ==
  /\ At(e, "generate")
  /\ IsEdwardLoop
  /\ \/ /\ \E fullText \in EdwardOutputs :
             h' = [h EXCEPT
               ![e].pc = NextStage(variant, "generate"),
               ![e].messages = <<[role |-> "user", content |-> h[e].userText]>>,
               ![e].english = Trim(fullText)]
        /\ log' = [log EXCEPT ![e] = Append(@, Call("generate", TRUE))]
        /\ UNCHANGED faults
     \/ /\ faults < MaxFaults
        /\ faults' = faults + 1
        /\ h' = [h EXCEPT ![e].pc = Thrown(variant)]
        /\ log' = [log EXCEPT ![e] = Append(@, Call("generate", FALSE))]
  /\ UNCHANGED <<variant, table, storage, now, ev, out, http, deliveries,
                 pText, pOut, recent>>

\* What the translation completion may answer.
Translations == { <<"j">>, <<SP>> }

\* generateResponse of Edward, the second completion: the Japanese text is
\* the model's translation trimmed.
Translate(e) ==
  /\ At(e, "translate")
  /\ \/ /\ \E text \in Translations :
             h' = [h EXCEPT ![e].pc = NextStage(variant, "translate"),
                            ![e].japanese = Trim(text)]
        /\ log' = [log EXCEPT ![e] = Append(@, Call("translate", TRUE))]
        /\ UNCHANGED faults
     \/ /\ faults < MaxFaults
        /\ faults' = faults + 1
        /\ h' = [h EXCEPT ![e].pc = Thrown(variant)]
        /\ log' = [log EXCEPT ![e] = Append(@, Call("translate", FALSE))]
  /\ UNCHANGED <<variant, table, storage, now, ev, out, http, deliveries,
                 pText, pOut, recent>>

\* uploadAudio of part_001 (Rachel): upsert: true, so an existing object is
\* replaced; on an error result it returns null and nothing is thrown.
\* generateResponse of Edward: upsert: false, so the upload returns an error
\* for a key that exists; the result is not looked at and the public URL of
\* the key is used whatever happened.
LoopUpload(e) ==
  /\ At(e, "upload")
  /\ \E t \in Clock :
       LET key == ObjectKey(variant, ev[e].userId, t, 0)
           stored == IF variant = "P1Rachel" THEN TRUE ELSE key \notin storage
       IN /\ now' = t
          /\ \/ /\ stored
                /\ storage' = storage \cup {key}
                /\ h' = [h EXCEPT ![e].pc = NextStage(variant, "upload"),
                                  ![e].url = key]
                /\ log' = [log EXCEPT ![e] = Append(@, Call("upload", TRUE))]
                /\ UNCHANGED faults
             \/ /\ ~stored
                /\ h' = [h EXCEPT ![e].pc = NextStage(variant, "upload"),
                                  ![e].url = key]
                /\ log' = [log EXCEPT ![e] = Append(@, Call("upload", FALSE))]
                /\ UNCHANGED <<storage, faults>>
             \/ /\ stored
                /\ faults < MaxFaults
                /\ faults' = faults + 1
                /\ h' = [h EXCEPT ![e].pc = NextStage(variant, "upload"),
                                  ![e].url = IF variant = "P1Rachel"
                                               THEN NullUrl ELSE key]
                /\ log' = [log EXCEPT ![e] = Append(@, Call("upload", FALSE))]
                /\ UNCHANGED storage
  /\ UNCHANGED <<variant, table, ev, out, http, deliveries, pText, pOut, recent>>

\* The messages of the reply of the routes.
LoopReplyMessages(v, hs) ==
  IF v = "P1Rachel"
    THEN << TextMsg(<<EN, SP>> \o hs.english),
            TextMsg(<<JP, SP>> \o hs.japanese),
            AudioMsg(hs.url, DurationMsP1) >>
    ELSE << TextMsg(hs.english),
            TextMsg(hs.japanese),
            AudioMsg(hs.url, DurationMsEdward) >>

\* await lineClient.replyMessage(event.replyToken, [...]) in the route.
LoopReply(e) ==
  /\ At(e, "reply")
  /\ \E ok \in BOOLEAN :
       /\ ok \/ faults < MaxFaults
       /\ faults' = IF ok THEN faults ELSE faults + 1
       /\ out' = [out EXCEPT ![e] =
            Append(@, [msgs |-> LoopReplyMessages(variant, h[e]), ok |-> ok])]
       /\ log' = [log EXCEPT ![e] = Append(@, Call("reply", ok))]
       /\ h' = [h EXCEPT ![e].pc = IF ok THEN NextStage(variant, "reply")
                                   ELSE Thrown(variant)]
  /\ UNCHANGED <<variant, table, storage, now, ev, http, deliveries, pText,
                 pOut, recent>>

\* res.status(200).end() after the for loop of Edward's route.
LoopRespond ==
  /\ IsEdwardLoop
  /\ http = "none"
  /\ ev # <<>>
  /\ \A e \in DOMAIN ev : h[e].pc = "done"
  /\ http' = "200"
  /\ UNCHANGED <<variant, table, storage, now, ev, h, log, out, deliveries,
                 faults, pText, pOut, recent>>

LoopInit ==
  /\ variant \in LoopVariants
  /\ table = <<>>
  /\ storage = {}
  /\ now = 0
  /\ ev = <<>>
  /\ h = <<>>
  /\ log = <<>>
  /\ out = <<>>
  /\ http = "none"
  /\ deliveries = 0
  /\ faults = 0
  /\ pText = <<>>
  /\ pOut = <<>>
  /\ recent = <<>>

LoopNext ==
  \/ LoopReceive
  \/ \E e \in BatchIds : LoopStart(e)
  \/ \E e \in BatchIds : Fetch(e)
  \/ \E e \in BatchIds : LoopTranscribe(e)
  \/ \E e \in BatchIds : SaveUser(e)
  \/ \E e \in BatchIds : Read(e)
  \/ \E e \in BatchIds : variant = "P1Rachel" /\ Generate(e)
  \/ \E e \in BatchIds : GenerateResponse(e)
  \/ \E e \in BatchIds : Translate(e)
  \/ \E e \in BatchIds : Synth(e)
  \/ \E e \in BatchIds : LoopUpload(e)
  \/ \E e \in BatchIds : SaveAsst(e)
  \/ \E e \in BatchIds : LoopReply(e)
  \/ LoopRespond

LoopSpec == LoopInit /\ [][LoopNext]_vars

\* Every awaited call settles and the route goes on whenever it can.
LoopFairSpec == LoopSpec /\ WF_vars(LoopNext)

(***************************************************************************)
(* src/index.js: one delivery with two message events of one user, which   *)
(* Promise.all runs concurrently: the steps of the two handlers interleave *)
(* at their awaits.                                                        *)
(***************************************************************************)
PairIds == {1, 2}

\* The route of src/index.js before the delivery; of the calls of the two
\* handlers at most MaxBatchFaults fail.
BatchInit ==
  /\ variant \in {"IdxA", "IdxB"}
  /\ table = <<>>
  /\ storage = {}
  /\ now = 0
  /\ ev = <<>>
  /\ h = <<>>
  /\ log = <<>>
  /\ out = <<>>
  /\ http = "none"
  /\ deliveries = 0
  /\ faults = MaxFaults - MaxBatchFaults
  /\ pText = <<>>
  /\ pOut = <<>>
  /\ recent = <<>>

\* The delivery arrives: req.body.events holds two message events of u1.
BatchReceive ==
  /\ ev = <<>>
  /\ \E mts \in [PairIds -> MsgTypes] :
       ev' = [e \in PairIds |->
                [type |-> "message", mtype |-> mts[e], userId |-> "u1",
                 text |-> MsgText(e), replyToken |-> e]]
  /\ h' = [e \in PairIds |-> InitHandler]
  /\ log' = [e \in PairIds |-> <<>>]
  /\ out' = [e \in PairIds |-> <<>>]
  /\ deliveries' = deliveries + 1
  /\ UNCHANGED <<variant, table, storage, now, faults, http, pText, pOut,
                 recent>>

BatchNext ==
  \/ BatchReceive
  \/ \E e \in PairIds : Start(e)
  \/ \E e \in PairIds : Fetch(e)
  \/ \E e \in PairIds : Transcribe(e)
  \/ \E e \in PairIds : SaveUser(e)
  \/ \E e \in PairIds : Read(e)
  \/ \E e \in PairIds : Generate(e)
  \/ \E e \in PairIds : SaveAsst(e)
  \/ \E e \in PairIds : SaveAsst2(e)
  \/ \E e \in PairIds : Synth(e)
  \/ \E e \in PairIds : Upload(e)
  \/ \E e \in PairIds : Reply(e)
  \/ \E e \in PairIds : ReplyEmpty(e)
  \/ \E e \in PairIds : ReplyOther(e)
  \/ \E e \in PairIds : Apology(e)
  \/ Respond

BatchSpec == BatchInit /\ [][BatchNext]_vars

(***************************************************************************)
(* A conversation in progress: the table holds one earlier exchange of a   *)
(* user, as handleEvent of the variant wrote it, when the delivery arrives.*)
(***************************************************************************)
EarlierText == <<"msg", "0">>

\* The rows handleEvent of variant v inserted for an earlier message of
\* user u that the model answered with fullText: the user turn, then the
\* assistant record(s).
EarlierExchange(v, u, fullText) ==
  LET p  == ParseReply(v, fullText)
      t1 == InsertRow(<<>>, u, "user", EarlierText, "text")
      t2 == InsertRow(t1, u, "assistant",
                      AssistantContent(v, p.english, p.japanese), "text")
  IN  IF SplitsAssistant(v)
        THEN InsertRow(t2, u, "assistant", p.japanese, "text")
        ELSE t2

ConvInit ==
  /\ variant \in {"IdxA", "IdxB", "P0Rachel", "P0Edward"}
  /\ table \in {EarlierExchange(variant, u, f) : u \in Users, f \in ModelOutputs}
  /\ storage = {}
  /\ now = 0
  /\ ev = <<>>
  /\ h = <<>>
  /\ log = <<>>
  /\ out = <<>>
  /\ http = "none"
  /\ deliveries = 0
  /\ faults = 0
  /\ pText = <<>>
  /\ pOut = <<>>
  /\ recent = <<>>

ConvSpec == ConvInit /\ [][Next]_vars

(***************************************************************************)
(* The generators' parsers on their own: every raw model output of at most *)
(* MaxLen tokens, handed to the parser of every generator.                 *)
(***************************************************************************)
ParseInit ==
  /\ variant \in Generators
  /\ pText \in Texts(MaxLen)
  /\ pOut = <<>>
  /\ table = <<>>
  /\ storage = {}
  /\ now = 0
  /\ ev = <<>>
  /\ h = <<>>
  /\ log = <<>>
  /\ out = <<>>
  /\ http = "none"
  /\ deliveries = 0
  /\ faults = 0
  /\ recent = <<>>

\* const { english, japanese } = parse of the model's text.
Parse ==
  /\ pOut = <<>>
  /\ pOut' = <<ParseReply(variant, pText)>>
  /\ UNCHANGED <<variant, table, storage, now, ev, h, log, out, http,
                 deliveries, faults, pText, recent>>

ParseNext == Parse

ParseSpec == ParseInit /\ [][ParseNext]_vars

(***************************************************************************)
(* The history store on its own: turns of any users are appended in any    *)
(* order, and the recent turns of a user are read.                         *)
(***************************************************************************)
Limits == {1, 2, HistoryLimit}

HistInit ==
  /\ variant = "IdxA"
  /\ table = <<>>
  /\ recent = <<>>
  /\ storage = {}
  /\ now = 0
  /\ ev = <<>>
  /\ h = <<>>
  /\ log = <<>>
  /\ out = <<>>
  /\ http = "none"
  /\ deliveries = 0
  /\ faults = 0
  /\ pText = <<>>
  /\ pOut = <<>>

\* The role of the next turn of a conversation: user and assistant turns
\* alternate.
NextRole(tbl, u) ==
  IF Cardinality({i \in 1..Len(tbl) : tbl[i].user_id = u}) % 2 = 0
    THEN "user" ELSE "assistant"

\* Some user's next turn is inserted; its content is unlike any other's.
HistAppend ==
  /\ recent = <<>>
  /\ Len(table) < MaxRows
  /\ \E u \in Users :
       table' = InsertRow(table, u, NextRole(table, u), <<Len(table) + 1>>, "text")
  /\ UNCHANGED <<variant, storage, now, ev, h, log, out, http, deliveries,
                 faults, pText, pOut, recent>>

\* getRecentMessages(userId, limit) is called and the store answers.
HistRead ==
  /\ recent = <<>>
  /\ \E u \in Users, limit \in Limits :
       recent' = <<[userId |-> u, limit |-> limit,
                    rows |-> GetRecentMessages(table, u, limit, FALSE)]>>
  /\ UNCHANGED <<variant, table, storage, now, ev, h, log, out, http,
                 deliveries, faults, pText, pOut>>

HistNext == HistAppend \/ HistRead

HistorySpec == HistInit /\ [][HistNext]_vars

(***************************************************************************)
(* The two caps on their own: the user text of a message and the input of  *)
(* the speech call, for texts shorter and longer than the caps.            *)
(***************************************************************************)
\* A text of n characters.
LongText(n) == [i \in 1..n |-> "e"]

UserTextLengths == {0, 1, UserTextCap, UserTextCap + 1, SpeechCap + 1}
EnglishLengths == {0, SpeechCap, SpeechCap + 1}

CapInit ==
  /\ variant \in AllVariants
  /\ \E mt \in {"text", "audio"}, u \in Users, n \in UserTextLengths :
       ev = << [type |-> "message", mtype |-> mt, userId |-> u,
                text |-> LongText(n), replyToken |-> 1] >>
  /\ pText \in {LongText(n) : n \in EnglishLengths}
  /\ pOut = <<>>
  /\ table = <<>>
  /\ storage = {}
  /\ now = 0
  /\ h = <<>>
  /\ log = <<>>
  /\ out = <<>>
  /\ http = "none"
  /\ deliveries = 0
  /\ faults = 0
  /\ recent = <<>>

\* The user text of the message: typed, or what the recording transcribes to.
CapUserText ==
  /\ pOut = <<>>
  /\ pOut' = <<[fn |-> "userText",
                value |-> UserTextOf(variant, ev[1].mtype, ev[1].text)]>>
  /\ UNCHANGED <<variant, table, storage, now, ev, h, log, out, http,
                 deliveries, faults, pText, recent>>

\* The input of the speech call for the English reply pText.
CapSpeech ==
  /\ pOut = <<>>
  /\ pOut' = <<[fn |-> "speech", value |-> SpeechInput(variant, pText)]>>
  /\ UNCHANGED <<variant, table, storage, now, ev, h, log, out, http,
                 deliveries, faults, pText, recent>>

CapNext == CapUserText \/ CapSpeech

CapSpec == CapInit /\ [][CapNext]_vars

(***************************************************************************)
(* The key generation on its own: two uploads, by any users at any times.  *)
(***************************************************************************)
\* The programs that upload the audio (handleEvent of part_002, Rachel,
\* uploads nothing).
KeyVariants == AllVariants \ {"P2Rachel"}

KeyInit ==
  /\ variant \in KeyVariants
  /\ pOut = <<>>
  /\ pText = <<>>
  /\ table = <<>>
  /\ storage = {}
  /\ now = 0
  /\ ev = <<>>
  /\ h = <<>>
  /\ log = <<>>
  /\ out = <<>>
  /\ http = "none"
  /\ deliveries = 0
  /\ faults = 0
  /\ recent = <<>>

\* The file name of an upload by user u at time t.
KeyGen ==
  /\ Len(pOut) < 2
  /\ \E u \in Users, t \in 0..MaxTime, r \in RandomParts(variant) :
       pOut' = Append(pOut, [userId |-> u, ts |-> t,
                             key |-> ObjectKey(variant, u, t, r)])
  /\ UNCHANGED <<variant, table, storage, now, ev, h, log, out, http,
                 deliveries, faults, pText, recent>>

KeyNext == KeyGen

KeySpec == KeyInit /\ [][KeyNext]_vars

(***************************************************************************)
(* Vocabulary of the properties.                                           *)
(***************************************************************************)
\* Call op was made for event e / was made and failed.
Called(e, op) == \E i \in 1..Len(log[e]) : log[e][i].op = op
Failed(e, op) == \E i \in 1..Len(log[e]) : log[e][i].op = op /\ ~log[e][i].ok

\* The position of call op in the log of event e (0: not made).
PosOf(e, op) ==
  IF Called(e, op) THEN Least({i \in 1..Len(log[e]) : log[e][i].op = op}) ELSE 0

\* A reply of the normal kind: text segments and an audio attachment.
IsNormal(msgs) == msgs[Len(msgs)].type = "audio"
IsApology(msgs) == msgs = <<TextMsg(ApologyText)>>

\* Some replyMessage call of event e returned.
Answered(e) == \E i \in 1..Len(out[e]) : out[e][i].ok

\* A call that throws when it fails was made for event e and failed.
ThrowingCalls == {"fetch", "generate", "synth", "upload", "reply",
                  "replyEmpty", "replyOther"}
SomeThrow(e) == \E op \in ThrowingCalls : Failed(e, op)

InIndexJs == variant \in {"IdxA", "IdxB"}
TextOrAudio(e) == ev[e].mtype \in {"text", "audio"}

(***************************************************************************)
(* C1                                                                      *)
(***************************************************************************)
\* C1 as stated: in src/index.js (both files) the handler of a text or audio
\* message ends having sent a reply: a throw from content fetch, generation,
\* synthesis or upload leads to the apology reply and to no normal reply,
\* and the event is never left unanswered.
C1_NeverUnanswered ==
  \A e \in DOMAIN ev :
    (InIndexJs /\ TextOrAudio(e) /\ Settled(e)) =>
      /\ Answered(e)
      /\ (\E op \in {"fetch", "generate", "synth", "upload"} : Failed(e, op)) =>
           /\ \A i \in 1..Len(out[e]) : ~IsNormal(out[e][i].msgs)
           /\ \E i \in 1..Len(out[e]) : IsApology(out[e][i].msgs) /\ out[e][i].ok

\* The state part of C1 as amended: a settled handler has made a reply call;
\* it is unanswered only if its last call was the apology and that threw
\* (the handler's promise is then rejected); a throw from fetch, generation,
\* synthesis or upload leads to the apology call and to no normal reply call.
C1_AnsweredUnlessApologyThrew ==
  \A e \in DOMAIN ev :
    (InIndexJs /\ TextOrAudio(e) /\ Settled(e)) =>
      /\ out[e] # <<>>
      /\ \/ Answered(e) /\ h[e].pc = "done"
         \/ /\ ~Answered(e)
            /\ h[e].pc = "rejected"
            /\ IsApology(out[e][Len(out[e])].msgs)
      /\ (\E op \in {"fetch", "generate", "synth", "upload"} : Failed(e, op)) =>
           /\ \A i \in 1..Len(out[e]) : ~IsNormal(out[e][i].msgs)
           /\ IsApology(out[e][Len(out[e])].msgs)

\* C1 as amended: when every external call returns or throws, the handler of
\* a text or audio message terminates, and then it has sent a reply unless
\* the apology replyMessage itself threw.
C1_TerminatesAnswered ==
  /\ [] C1_AnsweredUnlessApologyThrew
  /\ \A e \in EventIds :
       (e \in DOMAIN ev /\ h[e].pc = "start") ~> (e \in DOMAIN ev /\ Settled(e))

\* A stage threw, the apology was sent, the handler is done.
C1_Witness ==
  \E e \in DOMAIN ev :
    /\ variant = "IdxA" /\ ev[e].mtype = "audio"
    /\ Failed(e, "synth")
    /\ h[e].pc = "done"
    /\ Len(out[e]) = 1 /\ IsApology(out[e][1].msgs) /\ out[e][1].ok

(***************************************************************************)
(* C2                                                                      *)
(***************************************************************************)
\* The order of stages the claim states.
ClaimedOrder ==
  <<"read", "generate", "saveUser", "saveAsst", "synth", "upload", "reply">>

\* How often the request to the model holds the new user text as a user turn.
TimesSupplied(e) ==
  Cardinality({i \in 1..Len(h[e].messages) :
     /\ h[e].messages[i].role = "user"
     /\ h[e].messages[i].content = h[e].userText})

\* C2 as stated: within one exchange the calls are made in the order history
\* read, generation, user write, assistant write, synthesis, upload, reply;
\* no turn is written before the read, and the request to the model holds
\* the new user text exactly once.
C2_ReadBeforeWrites ==
  \A e \in DOMAIN ev :
    (variant \in {"IdxA", "IdxB", "P2Rachel"}) =>
      /\ \A i, j \in 1..Len(ClaimedOrder) :
           (i < j /\ Called(e, ClaimedOrder[i]) /\ Called(e, ClaimedOrder[j])) =>
             PosOf(e, ClaimedOrder[i]) < PosOf(e, ClaimedOrder[j])
      /\ (\E i \in 1..Len(log[e]) :
            log[e][i].op \in {"saveUser", "saveAsst", "saveAsst2"} /\ log[e][i].ok)
           => Called(e, "read")
      /\ Called(e, "read") => TimesSupplied(e) = 1

(***************************************************************************)
(* C3                                                                      *)
(***************************************************************************)
\* The transcript of the voice message of event e came back empty.
EmptyTranscript(e) ==
  /\ ev[e].mtype = "audio"
  /\ Called(e, "transcribe")
  /\ h[e].userText = <<>>

PipelineCalls ==
  {"saveUser", "read", "generate", "saveAsst", "saveAsst2", "synth", "upload",
   "reply"}

\* C3: a voice message whose transcript is empty (also when the
\* transcription call threw) gets the could-not-understand reply as the one
\* reply of the event when that replyMessage call returns, and no history
\* read or write, generation, synthesis or upload is made for it.
C3_EmptyTranscriptOnlyReplies ==
  \A e \in DOMAIN ev :
    (HasCatch(variant) /\ EmptyTranscript(e)) =>
      /\ \A op \in PipelineCalls : ~Called(e, op)
      /\ h[e].messages = <<>> /\ h[e].spoken = NoText /\ h[e].url = NoUrl
      /\ Settled(e) =>
           /\ out[e] # <<>>
           /\ out[e][1].msgs = <<TextMsg(CouldNotUnderstand)>>
           /\ out[e][1].ok => out[e] = <<[msgs |-> <<TextMsg(CouldNotUnderstand)>>,
                                         ok |-> TRUE]>>
           /\ Cardinality({i \in 1..Len(out[e]) : out[e][i].ok}) <= 1

\* The transcription call threw and the one reply is delivered.
C3_Witness ==
  \E e \in DOMAIN ev :
    /\ InIndexJs
    /\ EmptyTranscript(e)
    /\ Failed(e, "transcribe")
    /\ h[e].pc = "done"
    /\ out[e] = <<[msgs |-> <<TextMsg(CouldNotUnderstand)>>, ok |-> TRUE]>>

(***************************************************************************)
(* C4                                                                      *)
(***************************************************************************)
\* C4 as stated: the Japanese segment of every normal reply handleEvent
\* sends (index.js both files, part_000 both files) is not empty.
C4_JapaneseSegmentNonEmpty ==
  \A e \in DOMAIN ev :
    (variant \in {"IdxA", "IdxB", "P0Rachel", "P0Edward"}) =>
      \A i \in 1..Len(out[e]) :
        IsNormal(out[e][i].msgs) => out[e][i].msgs[2].text # <<>>

(***************************************************************************)
(* C8 and C9                                                               *)
(***************************************************************************)
\* The calls of a complete exchange of a text message, in the code's order.
FullExchange(v) ==
  CASE v = "P2Rachel"     -> <<"read", "generate", "saveUser", "saveAsst",
                               "synth", "reply">>
    [] SplitsAssistant(v) -> <<"saveUser", "read", "generate", "saveAsst",
                               "saveAsst2", "synth", "upload", "reply">>
    [] OTHER              -> <<"saveUser", "read", "generate", "saveAsst",
                               "synth", "upload", "reply">>

\* The exchange of event e ran all its stages and its normal reply, the one
\* reply of the event, was delivered.
NormallyReplied(e) ==
  /\ h[e].pc = "done"
  /\ [i \in 1..Len(log[e]) |-> log[e][i].op]
       \in {FullExchange(variant), <<"fetch", "transcribe">> \o FullExchange(variant)}
  /\ Len(out[e]) = 1
  /\ out[e][1].ok
  /\ IsNormal(out[e][1].msgs)
  /\ out[e][1].msgs[1].text =
       IF variant = "P2Rachel"
         THEN <<EN, SP>> \o h[e].english \o <<NL, JP, SP>> \o h[e].japanese
         ELSE h[e].english

\* The handler of event e left the normal path.
OffNormalPath(e) ==
  \/ h[e].pc \in {"apology", "rejected"}
  \/ \E i \in 1..Len(out[e]) : ~IsNormal(out[e][i].msgs)

\* C8: when the history read fails, the generator is called with an empty
\* history (the request holds the new user text only), the exchange goes on
\* and, no other call throwing, ends with the normal reply; the read failure
\* alone leads to no apology.
C8_ReadFailureDegrades ==
  \A e \in DOMAIN ev :
    Failed(e, "read") =>
      /\ h[e].messages = BuildMessages(variant, <<>>, h[e].userText)
      /\ OffNormalPath(e) => SomeThrow(e)
      /\ (Settled(e) /\ ~SomeThrow(e)) => NormallyReplied(e)

\* The user turn was stored, the read failed, the normal reply is delivered.
C8_Witness ==
  \E e \in DOMAIN ev :
    /\ variant = "IdxA"
    /\ Failed(e, "read")
    /\ \E i \in 1..Len(table) : table[i].user_id = ev[e].userId
    /\ ~SomeThrow(e)
    /\ NormallyReplied(e)

\* C9: when an insert of the exchange returns an error, the later stages
\* still run and, no other call throwing, the exchange ends with the normal
\* reply made of the generator's English and Japanese; the write failure
\* alone leads to no apology.
C9_WriteFailureSwallowed ==
  \A e \in DOMAIN ev :
    (\E op \in {"saveUser", "saveAsst", "saveAsst2"} : Failed(e, op)) =>
      /\ OffNormalPath(e) => SomeThrow(e)
      /\ (Settled(e) /\ ~SomeThrow(e)) => NormallyReplied(e)

\* Both the user write and an assistant write failed; the normal reply is
\* delivered.
C9_Witness ==
  \E e \in DOMAIN ev :
    /\ Failed(e, "saveUser")
    /\ Failed(e, "saveAsst")
    /\ table = <<>>
    /\ ~SomeThrow(e)
    /\ NormallyReplied(e)

(***************************************************************************)
(* C5, C6, C7: the parsers                                                 *)
(***************************************************************************)
\* How often token t occurs in s.
Count(s, t) == Cardinality({i \in 1..Len(s) : s[i] = t})

\* The raw output pText has been parsed.
Parsed == pOut # <<>>

\* C5 as stated: for a model output without the EN tag every generator
\* returns the whole output, trimmed, as the English field; with neither tag
\* the Japanese field is empty.
C5_NoEnTagWholeOutput ==
  (Parsed /\ ~Has(pText, EN)) =>
    /\ pOut[1].english = Trim(pText)
    /\ ~Has(pText, JP) => pOut[1].japanese = <<>>

\* C6 as stated: for a model output with the EN tag and without the JP tag
\* the English field is the trimmed text after the EN tag, without the tag,
\* and the Japanese field is empty.
C6_EnTagOnly ==
  (Parsed /\ Has(pText, EN) /\ ~Has(pText, JP)) =>
    /\ pOut[1].english = Trim(SubSeq(pText, FirstIdx(pText, EN) + 1, Len(pText)))
    /\ pOut[1].japanese = <<>>

\* pText is EN: e JP: j with no tag inside e or j.
WellFormed(s) ==
  /\ s # <<>> /\ s[1] = EN
  /\ Count(s, EN) = 1
  /\ Count(s, JP) = 1

\* C7 as stated: for a model output EN: e JP: j, the JP tag on a new line or
\* not, the English field is trim(e) and the Japanese field is trim(j).
C7_SplitAtTags ==
  (Parsed /\ WellFormed(pText)) =>
    /\ pOut[1].english = Trim(SubSeq(pText, 2, FirstIdx(pText, JP) - 1))
    /\ pOut[1].japanese = Trim(SubSeq(pText, FirstIdx(pText, JP) + 1, Len(pText)))

(***************************************************************************)
(* C10: the history read                                                   *)
(***************************************************************************)
\* The rows of user u, oldest first, as the read projects them.
TurnsOf(tbl, u) ==
  LET mine == SelectSeq(tbl, LAMBDA r : r.user_id = u)
  IN [i \in 1..Len(mine) |-> [role |-> mine[i].role, content |-> mine[i].content]]

\* C10: whatever was appended by whichever users, getRecentMessages(userId,
\* limit) returns at most limit turns, all of userId: the last ones that
\* user inserted, oldest first.
C10_RecentTurns ==
  recent # <<>> =>
    LET r == recent[1]
        mine == TurnsOf(table, r.userId)
        n == Min(r.limit, Len(mine))
    IN /\ Len(r.rows) <= r.limit
       /\ r.rows = SubSeq(mine, Len(mine) - n + 1, Len(mine))

\* The default limit cuts: the user has more than 10 turns, interleaved with
\* another user's, and the read returns 10 of them.
C10_Witness ==
  /\ recent # <<>>
  /\ recent[1].limit = HistoryLimit
  /\ Len(TurnsOf(table, recent[1].userId)) > HistoryLimit
  /\ Len(table) > Len(TurnsOf(table, recent[1].userId))
  /\ table[Len(table)].user_id # recent[1].userId
  /\ Len(recent[1].rows) = HistoryLimit

(***************************************************************************)
(* C12, C17, C18: the reply payload and the acknowledgement                *)
(***************************************************************************)
\* The upload call of event e was made and returned a stored object.
Uploaded(e) == \E i \in 1..Len(log[e]) : log[e][i].op = "upload" /\ log[e][i].ok

\* The audio attachment of a reply.
AudioOf(msgs) == msgs[Len(msgs)]

\* C12 as stated: in every variant a reply with an audio attachment is sent
\* only after the upload of that exchange succeeded, and the attachment's
\* URL is the one of the key uploaded in that exchange.
C12_AudioOnlyIfUploaded ==
  \A e \in DOMAIN ev :
    \A i \in 1..Len(out[e]) :
      IsNormal(out[e][i].msgs) =>
        /\ Uploaded(e)
        /\ AudioOf(out[e][i].msgs).originalContentUrl = h[e].url
        /\ h[e].url \in storage

\* The apology replyMessage calls made for event e.
ApologyCalls(e) == {i \in 1..Len(out[e]) : IsApology(out[e][i].msgs)}

\* The catch block of the handler of event e was entered.
Caught(e) == h[e].pc = "apology" \/ Called(e, "apology")

\* C17 as stated: when the handler of src/index.js has caught an exception,
\* exactly one apology reply is attempted for the event and the delivery is
\* answered with 200, never with 500.
C17_CaughtThenAcknowledged ==
  \A e \in DOMAIN ev :
    (InIndexJs /\ Caught(e)) =>
      /\ Settled(e) => Cardinality(ApologyCalls(e)) = 1
      /\ http # "500"

\* The durations the variants put in the audio attachment.
FixedDurations == {DurationMs, DurationMsP2}

\* C18 as stated: every normal reply to a text or audio message is the list
\* [text: English, text: Japanese or fallback, audio: URL and duration]; the
\* English segment is the text handed to the synthesizer and the duration
\* is a fixed number.
C18_ThreeSegments ==
  \A e \in DOMAIN ev :
    \A i \in 1..Len(out[e]) :
      (TextOrAudio(e) /\ IsNormal(out[e][i].msgs)) =>
        /\ Len(out[e][i].msgs) = 3
        /\ out[e][i].msgs[1] = TextMsg(h[e].english)
        /\ out[e][i].msgs[2].type = "text"
        /\ out[e][i].msgs[3].duration \in FixedDurations

(***************************************************************************)
(* C19, C20: the caps                                                      *)
(***************************************************************************)
\* C19 as stated: in every variant the input of the speech call is the
\* first 800 characters of the English reply, never more, and truncating it
\* again changes nothing.
C19_SpeechInputCapped ==
  (pOut # <<>> /\ pOut[1].fn = "speech") =>
    /\ pOut[1].value = SubSeq(pText, 1, Min(SpeechCap, Len(pText)))
    /\ Len(pOut[1].value) <= SpeechCap
    /\ SpeechInput(variant, pOut[1].value) = pOut[1].value

\* C20 as stated: the user text handleEvent of src/index.js stores and hands
\* to the generator has at most 400 characters, typed or transcribed.
C20_UserTextCapped ==
  (pOut # <<>> /\ pOut[1].fn = "userText" /\ InIndexJs) =>
    Len(pOut[1].value) <= UserTextCap

(***************************************************************************)
(* C14: the object keys                                                    *)
(***************************************************************************)
\* C14 as stated: in every variant two uploads by different users with the
\* same timestamp get different keys.
C14_KeysOfDifferentOwnersDiffer ==
  \A i, j \in 1..Len(pOut) :
    (pOut[i].userId # pOut[j].userId /\ pOut[i].ts = pOut[j].ts) =>
      pOut[i].key # pOut[j].key

(***************************************************************************)
(* C16: the events of a batch                                              *)
(***************************************************************************)
\* C16 as stated: in every variant's route every message event of a batch
\* gets its handler run, whatever happens to the other events of the batch.
C16_EveryEventHandled ==
  \A e \in BatchIds :
    (At(e, "start") /\ TextOrAudio(e)) ~> (e \in DOMAIN ev /\ h[e].pc # "start")

(***************************************************************************)
(* C11, C13: what an exchange leaves in the table and in the bucket        *)
(***************************************************************************)
\* Text sub occurs in text s.
Contains(s, sub) ==
  \E i \in 0..Len(s) :
    i + Len(sub) <= Len(s) /\ SubSeq(s, i + 1, i + Len(sub)) = sub

\* The rows of the user of event e with the given role.
RowsOf(e, role) ==
  {i \in 1..Len(table) : table[i].user_id = ev[e].userId /\ table[i].role = role}

\* The exchange of event e is over, its normal reply was delivered and none
\* of its inserts failed.
EndedNormally(e) ==
  /\ h[e].pc = "done"
  /\ h[e].userText # <<>>
  /\ \E i \in 1..Len(out[e]) : out[e][i].ok /\ IsNormal(out[e][i].msgs)
  /\ \A op \in {"saveUser", "saveAsst", "saveAsst2"} : ~Failed(e, op)

\* C11 as stated: in every variant an exchange that ends with the normal
\* reply has stored exactly one user turn for the message and at least one
\* assistant record, and its assistant records hold the English and the
\* Japanese reply.
C11_ExchangeStored ==
  \A e \in DOMAIN ev :
    (TextOrAudio(e) /\ EndedNormally(e)) =>
      /\ Cardinality({i \in RowsOf(e, "user") :
                        table[i].content = h[e].userText}) = 1
      /\ \E i \in RowsOf(e, "assistant") : Contains(table[i].content, h[e].english)
      /\ \E i \in RowsOf(e, "assistant") : Contains(table[i].content, h[e].japanese)

\* The URLs of the audio attachments sent for event e.
AudioUrls(e) ==
  {AudioOf(out[e][i].msgs).originalContentUrl :
     i \in {j \in 1..Len(out[e]) : IsNormal(out[e][j].msgs)}}

\* C13 as stated: an upload to a key that exists fails and the failure is
\* surfaced, so no two exchanges ever send the URL of the same object: no
\* reply points at the audio of another exchange.
C13_NoSharedAudio ==
  \A e1, e2 \in DOMAIN ev :
    e1 # e2 => AudioUrls(e1) \cap AudioUrls(e2) = {}

(***************************************************************************)
(* C15: two concurrent exchanges of one user                               *)
(***************************************************************************)
\* The position of a stage in handleEvent: every path through the function
\* visits its stages in this order.
StageRank(pc) ==
  CASE pc = "start"      -> 0
    [] pc = "fetch"      -> 1
    [] pc = "transcribe" -> 2
    [] pc = "saveUser"   -> 3
    [] pc = "read"       -> 4
    [] pc = "generate"   -> 5
    [] pc = "saveAsst"   -> 6
    [] pc = "saveAsst2"  -> 7
    [] pc = "synth"      -> 8
    [] pc = "upload"     -> 9
    [] pc \in {"reply", "replyEmpty", "replyOther"} -> 10
    [] pc = "apology"    -> 11
    [] OTHER             -> 12

\* No insert of event e failed.
InsertsSucceeded(e) ==
  \A op \in {"saveUser", "saveAsst", "saveAsst2"} : ~Failed(e, op)

\* The handler of event e went as far as its normal reply.
ReachedNormalReply(e) ==
  \E i \in 1..Len(out[e]) : IsNormal(out[e][i].msgs)

\* The table holds the user turn and the assistant turn(s) of event e.
ExchangeInHistory(e) ==
  /\ \E i \in RowsOf(e, "user") : table[i].content = h[e].userText
  /\ \E i \in RowsOf(e, "assistant") : Contains(table[i].content, h[e].english)
  /\ \E i \in RowsOf(e, "assistant") : Contains(table[i].content, h[e].japanese)

\* The insert op of event e returned without an error.
Inserted(e, op) ==
  \E i \in 1..Len(log[e]) : log[e][i].op = op /\ log[e][i].ok

\* What the handler of event e has inserted so far is in the table: no row
\* is lost to the inserts of the other handler.
StoredSoFar(e) ==
  /\ Inserted(e, "saveUser") =>
       \E i \in RowsOf(e, "user") : table[i].content = h[e].userText
  /\ Inserted(e, "saveAsst") =>
       \E i \in RowsOf(e, "assistant") :
         Contains(table[i].content, h[e].english)
  /\ Inserted(e, IF SplitsAssistant(variant) THEN "saveAsst2" ELSE "saveAsst") =>
       \E i \in RowsOf(e, "assistant") :
         Contains(table[i].content, h[e].japanese)

\* Both handlers are over and the table holds both exchanges.
BothInHistory ==
  /\ \A e \in PairIds : ExchangeInHistory(e)
  /\ Cardinality(RowsOf(1, "user")) = 2
  /\ Cardinality(RowsOf(1, "assistant")) >= 2

\* A handler that is not over can always take its next step, whatever the
\* other handler has done: the call it awaits returns or throws.  (Of Read
\* the guard is written out: the select returns rows or an error.)
NeverBlocked ==
  \A e \in DOMAIN ev :
    /\ h[e].pc \in {"start", "fetch", "transcribe", "saveUser", "read",
                    "generate", "saveAsst", "saveAsst2", "synth", "upload",
                    "reply", "replyEmpty", "replyOther", "apology",
                    "done", "rejected"}
    /\ At(e, "start")      => ENABLED Start(e)
    /\ At(e, "fetch")      => ENABLED Fetch(e)
    /\ At(e, "transcribe") => ENABLED Transcribe(e)
    /\ At(e, "saveUser")   => ENABLED SaveUser(e)
    /\ At(e, "read")       => \E ok \in BOOLEAN : ok \/ faults < MaxFaults
    /\ At(e, "generate")   => ENABLED Generate(e)
    /\ At(e, "saveAsst")   => ENABLED SaveAsst(e)
    /\ At(e, "saveAsst2")  => ENABLED SaveAsst2(e)
    /\ At(e, "synth")      => ENABLED Synth(e)
    /\ At(e, "upload")     => ENABLED Upload(e)
    /\ At(e, "reply")      => ENABLED Reply(e)
    /\ At(e, "replyEmpty") => ENABLED ReplyEmpty(e)
    /\ At(e, "replyOther") => ENABLED ReplyOther(e)
    /\ At(e, "apology")    => ENABLED Apology(e)

\* Every step of a handler moves it to a later stage, so a handler takes at
\* most twelve steps.
Advances ==
  \A e \in DOMAIN ev :
    (e \in DOMAIN h' /\ h'[e].pc # h[e].pc) =>
      StageRank(h'[e].pc) > StageRank(h[e].pc)

\* C15 as stated: two message events of one user run concurrently, all
\* inserts succeeding; both handlers end and the final history holds the
\* user turn and the assistant turn(s) of both exchanges.
C15_BothExchangesStored ==
  (/\ ev # <<>>
   /\ \A e \in PairIds : TextOrAudio(e) /\ Settled(e) /\ InsertsSucceeded(e))
  => BothInHistory

\* C15, amended: two message events of one user run concurrently in any
\* interleaving; neither handler ever blocks, each ends after at most twelve
\* steps in "done" or in a rejection the route catches, no row a handler
\* inserted is lost, and when all inserts succeeded and both handlers went as
\* far as their normal reply the final history holds the user turn and the
\* assistant turn(s) of both exchanges.
C15_BothStoredWhenBothReplied ==
  /\ []NeverBlocked
  /\ [][Advances]_vars
  /\ [](\A e \in DOMAIN ev : StoredSoFar(e))
  /\ []((/\ ev # <<>>
         /\ \A e \in PairIds :
              /\ TextOrAudio(e) /\ Settled(e) /\ InsertsSucceeded(e)
              /\ ReachedNormalReply(e))
        => BothInHistory)

\* Both exchanges, one typed and one spoken, ran to their normal reply with
\* their steps interleaved: the second handler stored its user turn before
\* the first stored its assistant turn.
C15_Witness ==
  /\ ev # <<>>
  /\ ev[1].mtype = "text" /\ ev[2].mtype = "audio"
  /\ \A e \in PairIds :
       Settled(e) /\ InsertsSucceeded(e) /\ ReachedNormalReply(e)
  /\ Len(table) >= 3
  /\ table[1].role = "user" /\ table[2].role = "user"
  /\ http = "200"

(***************************************************************************)
(* C21: the context sent to the model                                      *)
(***************************************************************************)
\* The text holds Japanese: a translation, or the fixed Japanese fallback.
HasJapanese(content) ==
  \E i \in 1..Len(content) : content[i] \in {"j", JpExtractFailed[1]}

\* The history turns of the request of event e: all its messages but the
\* last, which is the new user text.
ContextOf(e) == SubSeq(h[e].messages, 1, Len(h[e].messages) - 1)

\* C21 as stated: no assistant turn of the history that is mapped into the
\* model request holds the Japanese translation.
C21_ContextEnglishOnly ==
  \A e \in DOMAIN ev :
    \A i \in 1..Len(ContextOf(e)) :
      ContextOf(e)[i].role = "assistant" => ~HasJapanese(ContextOf(e)[i].content)

(***************************************************************************)
(* C22: one delivered reply per reply token                                *)
(***************************************************************************)
\* The positions of the replyMessage calls of event e that returned.
Delivered(e) == {i \in 1..Len(out[e]) : out[e][i].ok}

\* C22: in src/index.js at most one replyMessage call of an event succeeds
\* and none is attempted after one that succeeded, so a normal reply and an
\* apology are never both delivered.
C22_OneReplyDelivered ==
  InIndexJs =>
    \A e \in DOMAIN ev :
      /\ Cardinality(Delivered(e)) <= 1
      /\ \A i \in Delivered(e) : i = Len(out[e])

\* The normal reply threw and the apology that followed was delivered: two
\* attempts with the token, one delivery.
C22_Witness ==
  /\ InIndexJs
  /\ \E e \in DOMAIN ev :
       /\ Len(out[e]) = 2
       /\ IsNormal(out[e][1].msgs) /\ ~out[e][1].ok
       /\ IsApology(out[e][2].msgs) /\ out[e][2].ok
       /\ h[e].pc = "done"

(***************************************************************************)
(* C23: messages that are neither text nor audio                           *)
(***************************************************************************)
\* The calls of the exchange pipeline: history write and read, generation,
\* synthesis, upload.
ExchangeCalls ==
  {"saveUser", "read", "generate", "saveAsst", "saveAsst2", "synth", "upload"}

\* C23 as stated: in src/index.js and part_000 a message that is neither text
\* nor audio gets the fixed guidance text as its one reply, and its handler
\* writes and reads no history, generates, synthesizes and uploads nothing.
C23_OtherTypesOnlyGuided ==
  \A e \in DOMAIN ev :
    (HasCatch(variant) /\ ~TextOrAudio(e)) =>
      /\ \A op \in ExchangeCalls : ~Called(e, op)
      /\ \A i \in 1..Len(out[e]) :
           i = 1 => out[e][i].msgs = <<TextMsg(Guidance)>>

(***************************************************************************)
(* C24: the response and the handlers of the batch                         *)
(***************************************************************************)
\* C24 as stated: once the route of src/index.js has sent its response, no
\* handler of the batch writes to the store, uploads or replies.
C24_NoWorkAfterResponse ==
  [][http # "none" => (table' = table /\ storage' = storage /\ out' = out)]_vars

(***************************************************************************)
(* C25: what the history holds and what the user was sent                  *)
(***************************************************************************)
\* The normal reply of event e, with its English text, was delivered.
NormalDelivered(e) ==
  \E i \in 1..Len(out[e]) :
    /\ out[e][i].ok
    /\ IsNormal(out[e][i].msgs)
    /\ out[e][i].msgs[1].text = h[e].english

\* C25 as stated: in src/index.js, when the handler of an exchange is over
\* and an assistant turn of the exchange is in the history, the normal reply
\* with that English text was delivered to the user.
C25_StoredImpliesDelivered ==
  InIndexJs =>
    \A e \in DOMAIN ev :
      (Settled(e) /\ Inserted(e, "saveAsst")) => NormalDelivered(e)
====
